---- MODULE Spec2Model ----
(***************************************************************************)
(* BuilderData of src/src/cell/builder.rs: a byte buffer with a bit        *)
(* length, a reference list, a cell type and a level mask.  Bytes are      *)
(* naturals 0..255, a buffer is a sequence of bytes, and every method is   *)
(* an operator from the builder (and its arguments) to a result record     *)
(* [res, b]: res is "Ok", an ExceptionCode or "Panic", b the builder the   *)
(* call leaves behind.                                                     *)
(***************************************************************************)
EXTENDS Integers, Sequences, FiniteSets, TLC

VARIABLES
    builder,    \* the BuilderData under construction
    prev,       \* the builder as it was before the last call
    last,       \* the last call: [op, res, slice, bits]
    logical,    \* the bit string the builder is meant to hold
    other,      \* a clone of the builder, taken by Clone
    cmp,        \* the last result of compare_data(builder, other)
    ctor,       \* what the last finalize passed to the node constructor
    cell,       \* the last cell a finalize produced
    finalized,  \* the builder that finalize consumed to produce cell
    steps       \* number of calls made

vars ==
    <<builder, prev, last, logical, other, cmp, ctor, cell, finalized, steps>>

(***************************************************************************)
(* Program constants.                                                      *)
(***************************************************************************)
EXACT_CAPACITY == 128

MAX_DATA_BITS == 1023

MAX_REFERENCES == 4

MAX_SAFE_DEPTH == 2048

(***************************************************************************)
(* Bounds of the model.                                                    *)
(***************************************************************************)
MaxAsmSteps == 3

MaxSteps == 2

MaxCellSteps == 4

MaxCmpSteps == 4

(***************************************************************************)
(* u8 and u16 arithmetic.                                                  *)
(***************************************************************************)
Min(a, b) == IF a < b THEN a ELSE b

Shr(x, k) == x \div (2 ^ k)

ShlU8(x, k) == (x * (2 ^ k)) % 256

ShlU16(x, k) == (x * (2 ^ k)) % 65536

AsU8(x) == x % 256

RECURSIVE BitOrN(_, _, _)
BitOrN(a, c, n) ==
    IF n = 0 THEN 0
    ELSE (IF (a % 2 = 1) \/ (c % 2 = 1) THEN 1 ELSE 0)
         + 2 * BitOrN(a \div 2, c \div 2, n - 1)

BitOr(a, c) == BitOrN(a, c, 16)

(* SmallVec::truncate: keeps the first k elements, a no-op when k >= len.  *)
Truncate(d, k) == IF k >= Len(d) THEN d ELSE SubSeq(d, 1, k)

Front(d) == SubSeq(d, 1, Len(d) - 1)

LastOf(d) == d[Len(d)]

(* (x >> (8 - s)) << (8 - s) on a u8, 1 <= s <= 7.                         *)
MaskLow(x, s) == ShlU8(Shr(x, 8 - s), 8 - s)

(***************************************************************************)
(* Results.                                                                *)
(***************************************************************************)
Ok(b) == [res |-> "Ok", b |-> b]

Fail(code, b) == [res |-> code, b |-> b]

(***************************************************************************)
(* Capacity queries.                                                       *)
(***************************************************************************)
bits_capacity == MAX_DATA_BITS

references_capacity == MAX_REFERENCES

references_free(b) == references_capacity - Len(b.references)

(***************************************************************************)
(* Constructors.                                                           *)
(***************************************************************************)
new ==
    [data |-> <<>>, length_in_bits |-> 0, references |-> <<>>,
     cell_type |-> "Ordinary", level_mask |-> 0]

with_raw_data(data, length_in_bits) ==
    LET data_shift == length_in_bits % 8 IN
    IF data_shift = 0 THEN Truncate(data, length_in_bits \div 8)
    ELSE LET t == Truncate(data, 1 + length_in_bits \div 8) IN
         IF Len(t) = 0 THEN t
         ELSE [t EXCEPT ![Len(t)] = MaskLow(t[Len(t)], data_shift)]

with_raw(data, length_in_bits) ==
    IF length_in_bits > Len(data) * 8 THEN Fail("FatalError", new)
    ELSE IF length_in_bits > bits_capacity THEN Fail("CellOverflow", new)
    ELSE LET d == with_raw_data(data, length_in_bits) IN
         \* reserve_exact(EXACT_CAPACITY - data.len()): usize underflow
         IF Len(d) > EXACT_CAPACITY THEN Fail("Panic", new)
         ELSE Ok([data |-> d, length_in_bits |-> length_in_bits,
                  references |-> <<>>, cell_type |-> "Ordinary",
                  level_mask |-> 0])

(***************************************************************************)
(* The three append algorithms.                                            *)
(***************************************************************************)
(* Mutant: the stale tail of the buffer is not cut off before the slice is  *)
(* added.                                                                  *)
append_without_shifting_keeps_tail(b, slice, bits) ==
    LET d1 == b.data \o slice
        n  == b.length_in_bits + bits
    IN  Ok([b EXCEPT !.data = Truncate(d1, n \div 8), !.length_in_bits = n])

append_without_shifting(b, slice, bits) ==
    LET d1 == Truncate(b.data, b.length_in_bits \div 8) \o slice
        n  == b.length_in_bits + bits
    IN  Ok([b EXCEPT !.data = Truncate(d1, n \div 8), !.length_in_bits = n])

append_with_slice_shifting(b, slice, bits) ==
    LET d1 == Truncate(b.data, b.length_in_bits \div 8) \o slice
        n  == b.length_in_bits + bits
        d2 == Truncate(d1, 1 + n \div 8)
        slice_shift == bits % 8
    IN  IF Len(d2) = 0 THEN Fail("Panic", b)
        ELSE Ok([b EXCEPT
                   !.data = Append(Front(d2), MaskLow(LastOf(d2), slice_shift)),
                   !.length_in_bits = n])

(* for x in slice.iter() { y = (y << 8) | x; data.push((y >> self_shift) as u8) } *)
(* y is a u16, so y << 8 keeps the low byte of y alone, and after the      *)
(* iteration for slice[i-1] that low byte is slice[i-1]: the accumulator   *)
(* after the iteration for slice[i] is written from that, without nesting  *)
(* one evaluation per byte.                                                *)
ShiftAcc(slice, i, last_bits) ==
    IF i = 0 THEN last_bits
    ELSE BitOr(ShlU16(IF i = 1 THEN last_bits ELSE slice[i - 1], 8), slice[i])

ShiftLoop(slice, last_bits, self_shift) ==
    [y |-> ShiftAcc(slice, Len(slice), last_bits),
     pushed |-> SubSeq([i \in 1..Len(slice) |->
                          AsU8(Shr(ShiftAcc(slice, i, last_bits), self_shift))],
                       1, Len(slice))]

(* Mutant: the new last partial byte is not masked again.                  *)
append_with_double_shifting_unmasked(b, slice, bits) ==
    LET self_shift == b.length_in_bits % 8
        d1 == Truncate(b.data, 1 + b.length_in_bits \div 8)
        n  == b.length_in_bits + bits
    IN  IF Len(d1) = 0 THEN Fail("Panic", b)
        ELSE
        LET last_bits == Shr(LastOf(d1), 8 - self_shift)
            loop == ShiftLoop(slice, last_bits, self_shift)
            d2 == Append(Front(d1) \o loop.pushed,
                         AsU8(ShlU16(loop.y, 8 - self_shift)))
        IN  Ok([b EXCEPT
                  !.data = Truncate(d2, IF n % 8 = 0 THEN n \div 8
                                        ELSE n \div 8 + 1),
                  !.length_in_bits = n])

append_with_double_shifting(b, slice, bits) ==
    LET self_shift == b.length_in_bits % 8
        d1 == Truncate(b.data, 1 + b.length_in_bits \div 8)
        n  == b.length_in_bits + bits
    IN  IF Len(d1) = 0 THEN Fail("Panic", b)
        ELSE
        LET last_bits == Shr(LastOf(d1), 8 - self_shift)
            loop == ShiftLoop(slice, last_bits, self_shift)
            d2 == Append(Front(d1) \o loop.pushed,
                         AsU8(ShlU16(loop.y, 8 - self_shift)))
            shift == n % 8
        IN  IF shift = 0
            THEN Ok([b EXCEPT !.data = Truncate(d2, n \div 8),
                              !.length_in_bits = n])
            ELSE LET d3 == Truncate(d2, n \div 8 + 1) IN
                 Ok([b EXCEPT
                       !.data = Append(Front(d3), MaskLow(LastOf(d3), shift)),
                       !.length_in_bits = n])

(* The two assertions that close append_raw.                               *)
append_raw_post(r) ==
    IF r.res # "Ok" THEN r
    ELSE IF /\ r.b.length_in_bits <= bits_capacity
            /\ Len(r.b.data) * 8 <= bits_capacity + 1
         THEN r
         ELSE Fail("Panic", r.b)

(* Mutant: the capacity is checked after the bits were appended.           *)
append_raw_checks_late(b, slice, bits) ==
    IF Len(slice) * 8 < bits THEN Fail("FatalError", b)
    ELSE LET r == IF bits # 0
                  THEN IF b.length_in_bits % 8 = 0
                       THEN IF bits % 8 = 0
                            THEN append_without_shifting(b, slice, bits)
                            ELSE append_with_slice_shifting(b, slice, bits)
                       ELSE append_with_double_shifting(b, slice, bits)
                  ELSE Ok(b)
         IN  IF r.res = "Ok" /\ r.b.length_in_bits > bits_capacity
             THEN Fail("CellOverflow", r.b)
             ELSE append_raw_post(r)

append_raw(b, slice, bits) ==
    IF Len(slice) * 8 < bits THEN Fail("FatalError", b)
    ELSE IF b.length_in_bits + bits > bits_capacity THEN Fail("CellOverflow", b)
    ELSE append_raw_post(
           IF bits # 0
           THEN IF b.length_in_bits % 8 = 0
                THEN IF bits % 8 = 0
                     THEN append_without_shifting(b, slice, bits)
                     ELSE append_with_slice_shifting(b, slice, bits)
                ELSE append_with_double_shifting(b, slice, bits)
           ELSE Ok(b))

prepend_raw(b, slice, bits) ==
    IF bits # 0
    THEN LET buffer == with_raw(slice, bits) IN
         IF buffer.res # "Ok" THEN Fail(buffer.res, b)
         ELSE LET r == append_raw(buffer.b, b.data, b.length_in_bits) IN
              IF r.res # "Ok" THEN Fail(r.res, b)
              ELSE Ok([b EXCEPT !.length_in_bits = r.b.length_in_bits,
                                !.data = r.b.data])
    ELSE Ok(b)

(***************************************************************************)
(* Direct replacement and truncation.                                      *)
(***************************************************************************)
replace_data(b, data, length_in_bits) ==
    Ok([b EXCEPT
          !.length_in_bits =
              Min(Min(length_in_bits, MAX_DATA_BITS), Len(data) * 8),
          !.data = data])

trunc(b, length_in_bits) ==
    IF b.length_in_bits < length_in_bits THEN Fail("FatalError", b)
    ELSE Ok([b EXCEPT !.length_in_bits = length_in_bits,
                      !.data = Truncate(b.data, 1 + length_in_bits \div 8)])

(***************************************************************************)
(* Tag codec (crate::cell::append_tag, crate::cell::find_tag).  The tag    *)
(* is a single 1 bit right after the last data bit, followed by zeros.     *)
(***************************************************************************)
append_tag(data, bits) ==
    LET shift == bits % 8 IN
    IF shift = 0 \/ Len(data) = 0
    THEN Append(Truncate(data, bits \div 8), 128)
    ELSE LET t == Truncate(data, 1 + bits \div 8)
             last_byte == LastOf(t)
             tagged == ShlU8(BitOr(Shr(last_byte, 7 - shift), 1), 7 - shift)
         IN  Append(Front(t), tagged)

RECURSIVE TrailingZeros(_)
TrailingZeros(x) == IF x % 2 = 1 THEN 0 ELSE 1 + TrailingZeros(x \div 2)

(* for x in bitstring.iter().rev(): every zero byte at the end takes 8    *)
(* bits off, the last non-zero byte its trailing zeros and the tag bit.    *)
find_tag(data) ==
    LET nonzero == {i \in 1..Len(data) : data[i] # 0} IN
    IF nonzero = {} THEN 0
    ELSE LET i == CHOOSE k \in nonzero : \A j \in nonzero : j <= k IN
         8 * i - (1 + TrailingZeros(data[i]))

(* Mutant: the tag bit is counted as a data bit.                           *)
with_bitstring_counts_tag(data) ==
    LET length_in_bits == find_tag(data) + 1 IN
    IF length_in_bits = 1 THEN Ok(new)
    ELSE IF length_in_bits > Len(data) * 8 THEN Fail("FatalError", new)
    ELSE IF length_in_bits > bits_capacity THEN Fail("CellOverflow", new)
    ELSE with_raw(data, length_in_bits)

with_bitstring(data) ==
    LET length_in_bits == find_tag(data) IN
    IF length_in_bits = 0 THEN Ok(new)
    ELSE IF length_in_bits > Len(data) * 8 THEN Fail("FatalError", new)
    ELSE IF length_in_bits > bits_capacity THEN Fail("CellOverflow", new)
    ELSE with_raw(data, length_in_bits)

(***************************************************************************)
(* References.  A child cell handle is a record [id, level_mask, depth].   *)
(***************************************************************************)
checked_append_reference(b, child) ==
    IF references_free(b) = 0 THEN Fail("CellOverflow", b)
    ELSE Ok([b EXCEPT !.references = Append(b.references, child)])

(* Mutant: the child is pushed at the end.                                 *)
checked_prepend_reference_pushes(b, child) ==
    IF references_free(b) = 0 THEN Fail("CellOverflow", b)
    ELSE Ok([b EXCEPT !.references = Append(b.references, child)])

checked_prepend_reference(b, child) ==
    IF references_free(b) = 0 THEN Fail("CellOverflow", b)
    ELSE Ok([b EXCEPT !.references = <<child>> \o b.references])

set_type(b, cell_type) == Ok([b EXCEPT !.cell_type = cell_type])

set_level_mask(b, mask) == Ok([b EXCEPT !.level_mask = mask])

(***************************************************************************)
(* Finalization.  The node constructor (DataCell::with_max_depth) keeps    *)
(* what it is given and fails when the depth of the new node exceeds       *)
(* max_depth.                                                              *)
(***************************************************************************)
NoCell ==
    [some |-> FALSE, data |-> <<>>, references |-> <<>>,
     cell_type |-> "Ordinary", level_mask |-> 0, depth |-> 0]

RECURSIVE MaxDepth(_, _)
MaxDepth(refs, i) ==
    IF i > Len(refs) THEN 0
    ELSE LET m == MaxDepth(refs, i + 1) IN
         IF refs[i].depth + 1 > m THEN refs[i].depth + 1 ELSE m

with_max_depth(references, data, cell_type, level_mask, max_depth) ==
    LET depth == MaxDepth(references, 1) IN
    IF depth > max_depth THEN [res |-> "Error", cell |-> NoCell]
    ELSE [res |-> "Ok",
          cell |-> [some |-> TRUE, data |-> data, references |-> references,
                    cell_type |-> cell_type, level_mask |-> level_mask,
                    depth |-> depth]]

(* for r in self.references.iter() { self.level_mask |= r.level_mask() }   *)
RECURSIVE OrLevelMasks(_, _, _)
OrLevelMasks(mask, refs, i) ==
    IF i > Len(refs) THEN mask
    ELSE OrLevelMasks(BitOr(mask, refs[i].level_mask), refs, i + 1)

finalize_level_mask(b) ==
    IF b.cell_type = "Ordinary"
    THEN OrLevelMasks(b.level_mask, b.references, 1)
    ELSE b.level_mask

(* What finalize hands to the node constructor.                            *)
finalize_args(b, max_depth) ==
    [references |-> b.references,
     data |-> append_tag(b.data, b.length_in_bits),
     cell_type |-> b.cell_type,
     level_mask |-> finalize_level_mask(b),
     max_depth |-> max_depth]

finalize(b, max_depth) ==
    LET a == finalize_args(b, max_depth) IN
    with_max_depth(a.references, a.data, a.cell_type, a.level_mask, a.max_depth)

into_cell(b) == finalize(b, MAX_SAFE_DEPTH)

bit_length(c) == find_tag(c.data)

from_cell(c) ==
    LET r == with_raw(c.data, bit_length(c)) IN
    IF r.res # "Ok" THEN Fail("Panic", new)       \* .unwrap()
    ELSE Ok([r.b EXCEPT !.references = c.references,
                        !.cell_type = c.cell_type,
                        !.level_mask = c.level_mask])

(***************************************************************************)
(* Label comparison.  A slice is a cell with the window [start, end) of    *)
(* its data bits; None is {} and Some(v) is {v}.                           *)
(***************************************************************************)
None == {}

Some(v) == {v}

get_bit(d, i) == Shr(d[(i \div 8) + 1], 7 - (i % 8)) % 2

load_cell(c) == [cell |-> c, start |-> 0, end |-> bit_length(c)]

load_builder(b) ==
    LET r == into_cell(b) IN
    IF r.res # "Ok" THEN [res |-> r.res, slice |-> load_cell(NoCell)]
    ELSE [res |-> "Ok", slice |-> load_cell(r.cell)]

remaining_bits(sl) == sl.end - sl.start

slice_get_bit(sl, i) == get_bit(sl.cell.data, sl.start + i)

(* (prefix, rem1, rem2): the remainders start at the first bit after the   *)
(* longest common prefix and are None when empty.                          *)
common_prefix(a, c) ==
    LET m == Min(remaining_bits(a), remaining_bits(c))
        diff == {i \in 0..(m - 1) : slice_get_bit(a, i) # slice_get_bit(c, i)}
        p == IF diff = {} THEN m
             ELSE CHOOSE i \in diff : \A j \in diff : i <= j
        rem(sl) == IF remaining_bits(sl) = p THEN None
                   ELSE Some([sl EXCEPT !.start = sl.start + p])
    IN  <<p, rem(a), rem(c)>>

first_bit(rem) ==
    IF rem = None THEN None
    ELSE LET sl == CHOOSE x \in rem : TRUE IN Some(slice_get_bit(sl, 0))

(* Mutant: the two remainders are returned in the wrong order.             *)
compare_data_swapped(a, c) ==
    IF a = c THEN [res |-> "Ok", r1 |-> None, r2 |-> None]
    ELSE LET label1 == load_builder(a)
             label2 == load_builder(c)
         IN  IF label1.res # "Ok"
             THEN [res |-> label1.res, r1 |-> None, r2 |-> None]
             ELSE IF label2.res # "Ok"
             THEN [res |-> label2.res, r1 |-> None, r2 |-> None]
             ELSE LET cp == common_prefix(label1.slice, label2.slice) IN
                  [res |-> "Ok", r1 |-> first_bit(cp[3]), r2 |-> first_bit(cp[2])]

compare_data(a, c) ==
    IF a = c THEN [res |-> "Ok", r1 |-> None, r2 |-> None]
    ELSE LET label1 == load_builder(a)
             label2 == load_builder(c)
         IN  IF label1.res # "Ok"
             THEN [res |-> label1.res, r1 |-> None, r2 |-> None]
             ELSE IF label2.res # "Ok"
             THEN [res |-> label2.res, r1 |-> None, r2 |-> None]
             ELSE LET cp == common_prefix(label1.slice, label2.slice) IN
                  [res |-> "Ok", r1 |-> first_bit(cp[2]), r2 |-> first_bit(cp[3])]

(***************************************************************************)
(* Reading a buffer bit by bit, most significant bit first, and packing a  *)
(* bit string into bytes.  Used for the ghost variable and the properties. *)
(***************************************************************************)
BitAt(d, i) == (d[(i \div 8) + 1] \div (2 ^ (7 - (i % 8)))) % 2

BitsOf(d, n) == SubSeq([i \in 1..n |-> BitAt(d, i - 1)], 1, n)

BitOrZero(s, i) == IF i <= Len(s) THEN s[i] ELSE 0

PackByte(s, j) ==
      128 * BitOrZero(s, 8 * j - 7) + 64 * BitOrZero(s, 8 * j - 6)
    + 32 * BitOrZero(s, 8 * j - 5)  + 16 * BitOrZero(s, 8 * j - 4)
    + 8 * BitOrZero(s, 8 * j - 3)   + 4 * BitOrZero(s, 8 * j - 2)
    + 2 * BitOrZero(s, 8 * j - 1)   + BitOrZero(s, 8 * j)

Pack(s) ==
    LET n == (Len(s) + 7) \div 8 IN SubSeq([j \in 1..n |-> PackByte(s, j)], 1, n)

(***************************************************************************)
(* Inputs.                                                                 *)
(***************************************************************************)
Pattern(seed, len) ==
    SubSeq([i \in 1..len |-> (seed + 89 * (i - 1)) % 256], 1, len)

ChildA == [id |-> 1, level_mask |-> 0, depth |-> 0]

ChildB == [id |-> 2, level_mask |-> 1, depth |-> 1]

ChildC == [id |-> 3, level_mask |-> 2, depth |-> 2]

Children == {ChildA, ChildB, ChildC}

CellTypes == {"Ordinary", "PrunedBranch"}

(***************************************************************************)
(* State.                                                                  *)
(***************************************************************************)
Call(op, res, slice, bits) ==
    [op |-> op, res |-> res, slice |-> slice, bits |-> bits]

NoCtor == [some |-> FALSE, args |-> finalize_args(new, 0)]

InitPair(b, o) ==
    /\ builder = b
    /\ prev = b
    /\ last = Call("new", "Ok", <<>>, 0)
    /\ logical = BitsOf(b.data, b.length_in_bits)
    /\ other = o
    /\ cmp = [res |-> "Ok", r1 |-> None, r2 |-> None]
    /\ ctor = NoCtor
    /\ cell = NoCell
    /\ finalized = b
    /\ steps = 0

InitWith(b) == InitPair(b, b)

InitNew == InitWith(new)

Tick(max) == steps < max /\ steps' = steps + 1

(***************************************************************************)
(* One action per public operation.                                        *)
(***************************************************************************)
WithRaw(data, length_in_bits) ==
    LET r == with_raw(data, length_in_bits)
        nb == IF r.res = "Ok" THEN r.b ELSE builder
    IN  /\ builder' = nb
        /\ prev' = builder
        /\ last' = Call("with_raw", r.res, data, length_in_bits)
        /\ logical' = BitsOf(nb.data, nb.length_in_bits)
        /\ UNCHANGED <<other, cmp, ctor, cell, finalized>>

WithBitstring(data) ==
    LET r == with_bitstring(data)
        nb == IF r.res = "Ok" THEN r.b ELSE builder
    IN  /\ builder' = nb
        /\ prev' = builder
        /\ last' = Call("with_bitstring", r.res, data, 0)
        /\ logical' = BitsOf(nb.data, nb.length_in_bits)
        /\ UNCHANGED <<other, cmp, ctor, cell, finalized>>

AppendRaw(slice, bits) ==
    LET r == append_raw(builder, slice, bits) IN
    /\ builder' = r.b
    /\ prev' = builder
    /\ last' = Call("append_raw", r.res, slice, bits)
    /\ logical' = IF r.res = "Ok" THEN logical \o BitsOf(slice, bits)
                  ELSE logical
    /\ UNCHANGED <<other, cmp, ctor, cell, finalized>>

PrependRaw(slice, bits) ==
    LET r == prepend_raw(builder, slice, bits) IN
    /\ builder' = r.b
    /\ prev' = builder
    /\ last' = Call("prepend_raw", r.res, slice, bits)
    /\ logical' = IF r.res = "Ok" THEN BitsOf(slice, bits) \o logical
                  ELSE logical
    /\ UNCHANGED <<other, cmp, ctor, cell, finalized>>

Trunc(length_in_bits) ==
    LET r == trunc(builder, length_in_bits) IN
    /\ builder' = r.b
    /\ prev' = builder
    /\ last' = Call("trunc", r.res, <<>>, length_in_bits)
    /\ logical' = BitsOf(r.b.data, r.b.length_in_bits)
    /\ UNCHANGED <<other, cmp, ctor, cell, finalized>>

ReplaceData(data, length_in_bits) ==
    LET r == replace_data(builder, data, length_in_bits) IN
    /\ builder' = r.b
    /\ prev' = builder
    /\ last' = Call("replace_data", r.res, data, length_in_bits)
    /\ logical' = BitsOf(r.b.data, r.b.length_in_bits)
    /\ UNCHANGED <<other, cmp, ctor, cell, finalized>>

CheckedAppendReference(child) ==
    LET r == checked_append_reference(builder, child) IN
    /\ builder' = r.b
    /\ prev' = builder
    /\ last' = Call("checked_append_reference", r.res, <<child>>, 0)
    /\ UNCHANGED <<logical, other, cmp, ctor, cell, finalized>>

CheckedPrependReference(child) ==
    LET r == checked_prepend_reference(builder, child) IN
    /\ builder' = r.b
    /\ prev' = builder
    /\ last' = Call("checked_prepend_reference", r.res, <<child>>, 0)
    /\ UNCHANGED <<logical, other, cmp, ctor, cell, finalized>>

SetType(cell_type) ==
    /\ builder' = set_type(builder, cell_type).b
    /\ prev' = builder
    /\ last' = Call("set_type", "Ok", <<>>, 0)
    /\ UNCHANGED <<logical, other, cmp, ctor, cell, finalized>>

SetLevelMask(mask) ==
    /\ builder' = set_level_mask(builder, mask).b
    /\ prev' = builder
    /\ last' = Call("set_level_mask", "Ok", <<>>, mask)
    /\ UNCHANGED <<logical, other, cmp, ctor, cell, finalized>>

(* finalize consumes self: builder keeps the value that was moved in.      *)
Finalize(max_depth) ==
    LET r == finalize(builder, max_depth) IN
    /\ ctor' = [some |-> TRUE, args |-> finalize_args(builder, max_depth)]
    /\ cell' = IF r.res = "Ok" THEN r.cell ELSE cell
    /\ finalized' = IF r.res = "Ok" THEN builder ELSE finalized
    /\ prev' = builder
    /\ last' = Call("finalize", r.res, <<>>, max_depth)
    /\ UNCHANGED <<builder, logical, other, cmp>>

FromCell ==
    /\ cell.some
    /\ LET r == from_cell(cell)
           nb == IF r.res = "Ok" THEN r.b ELSE builder
       IN  /\ builder' = nb
           /\ prev' = builder
           /\ last' = Call("from_cell", r.res, <<>>, 0)
           /\ logical' = BitsOf(nb.data, nb.length_in_bits)
    /\ UNCHANGED <<other, cmp, ctor, cell, finalized>>

Clone ==
    /\ other' = builder
    /\ prev' = builder
    /\ last' = Call("clone", "Ok", <<>>, 0)
    /\ UNCHANGED <<builder, logical, cmp, ctor, cell, finalized>>

CompareData ==
    /\ cmp' = compare_data(builder, other)
    /\ prev' = builder
    /\ last' = Call("compare_data", cmp'.res, <<>>, 0)
    /\ UNCHANGED <<builder, logical, other, ctor, cell, finalized>>

(* with_raw(bytes, n), the tag appended as finalize does, with_bitstring.  *)
RoundTrip(data, length_in_bits) ==
    LET r1 == with_raw(data, length_in_bits)
        tagged == append_tag(r1.b.data, r1.b.length_in_bits)
        r2 == with_bitstring(tagged)
    IN  IF r1.res # "Ok"
        THEN /\ last' = Call("round_trip_rejected", r1.res, data, length_in_bits)
             /\ prev' = builder
             /\ UNCHANGED <<builder, logical, other, cmp, ctor, cell, finalized>>
        ELSE /\ prev' = r1.b
             /\ builder' = IF r2.res = "Ok" THEN r2.b ELSE r1.b
             /\ last' = Call("round_trip", r2.res, tagged, length_in_bits)
             /\ logical' = BitsOf(data, length_in_bits)
             /\ UNCHANGED <<other, cmp, ctor, cell, finalized>>

(***************************************************************************)
(* SpecAsm: a bit string assembled from an empty builder by append_raw and *)
(* prepend_raw calls; the chunks take every length a slice allows (and one *)
(* more, which fails), so that every chunk length meets every bit offset.  *)
(***************************************************************************)
AsmChunks ==
    {<<slice, bits>> : slice \in {<<>>, <<165>>}, bits \in 0..9} \cup
    {<<slice, bits>> : slice \in {<<255, 60>>}, bits \in 9..17}

ValidChunk(c) == c[2] <= 8 * Len(c[1]) + 1

AsmAppend ==
    /\ Tick(MaxAsmSteps)
    /\ \E c \in AsmChunks : ValidChunk(c) /\ AppendRaw(c[1], c[2])

AsmPrepend ==
    /\ Tick(MaxAsmSteps)
    /\ \E c \in AsmChunks : ValidChunk(c) /\ PrependRaw(c[1], c[2])

NextAsm == AsmAppend \/ AsmPrepend

SpecAsm == InitNew /\ [][NextAsm]_vars

(***************************************************************************)
(* Spec: the bit buffer operations with_raw, with_bitstring, append_raw,   *)
(* prepend_raw, trunc and replace_data, on buffers from empty to past the  *)
(* cell capacity.                                                          *)
(***************************************************************************)
B0 == <<>>

B1 == Pattern(165, 1)

B2 == Pattern(165, 2)

B128 == Pattern(165, 128)

B129 == Pattern(165, 129)

DataInputs ==
    {<<B0, 0>>, <<B1, 3>>, <<B1, 8>>, <<B1, 9>>, <<B2, 11>>, <<B2, 16>>,
     <<B128, 1016>>, <<B128, 1019>>, <<B128, 1023>>, <<B128, 1024>>,
     <<B129, 0>>, <<B129, 1023>>, <<B129, 1040>>}

TagInputs == {B0, B1, B2, B128, B129}

TruncInputs == {0, 3, 8, 1016, 1019, 1024}

BitsChunks ==
    {<<<<>>, 0>>, <<<<>>, 1>>, <<<<165>>, 4>>, <<<<165>>, 8>>, <<<<165>>, 9>>,
     <<<<255, 60>>, 7>>, <<<<255, 60>>, 13>>, <<<<255, 60>>, 16>>}

Init ==
    \E in \in DataInputs :
        /\ with_raw(in[1], in[2]).res = "Ok"
        /\ InitWith(with_raw(in[1], in[2]).b)

BitsWithRaw ==
    /\ Tick(MaxSteps)
    /\ \E in \in DataInputs : WithRaw(in[1], in[2])

BitsWithBitstring ==
    /\ Tick(MaxSteps)
    /\ \E data \in TagInputs : WithBitstring(data)

BitsAppendRaw ==
    /\ Tick(MaxSteps)
    /\ \E c \in BitsChunks : AppendRaw(c[1], c[2])

BitsPrependRaw ==
    /\ Tick(MaxSteps)
    /\ \E c \in BitsChunks : PrependRaw(c[1], c[2])

BitsTrunc ==
    /\ Tick(MaxSteps)
    /\ \E n \in TruncInputs : Trunc(n)

BitsReplaceData ==
    /\ Tick(MaxSteps)
    /\ \E in \in DataInputs : ReplaceData(in[1], in[2])

Next ==
    \/ BitsWithRaw
    \/ BitsWithBitstring
    \/ BitsAppendRaw
    \/ BitsPrependRaw
    \/ BitsTrunc
    \/ BitsReplaceData

Spec == Init /\ [][Next]_vars

(***************************************************************************)
(* C3: a bit string assembled from an empty builder by append_raw and      *)
(* prepend_raw calls has length_in_bits equal to the string's length, a    *)
(* buffer byte-identical to that of with_raw applied to the string, and    *)
(* reads back bit by bit as the string.                                    *)
(***************************************************************************)
C3_AssemblyIsCanonical ==
    LET direct == with_raw(Pack(logical), Len(logical)) IN
    /\ builder.length_in_bits = Len(logical)
    /\ direct.res = "Ok"
    /\ builder.data = direct.b.data
    /\ BitsOf(builder.data, builder.length_in_bits) = logical

C3_Witness ==
    /\ last.op = "prepend_raw"
    /\ last.res = "Ok"
    /\ last.bits % 8 # 0
    /\ prev.length_in_bits % 8 # 0
    /\ prev.length_in_bits > 8
    /\ builder.length_in_bits = prev.length_in_bits + last.bits
    /\ \E i \in 1..Len(logical) : logical[i] = 1
    /\ \E i \in 1..Len(logical) : logical[i] = 0

(***************************************************************************)
(* Properties of the bit buffer under Spec.                                *)
(***************************************************************************)
IsAppendOrPrepend == last.op \in {"append_raw", "prepend_raw"}

(* The buffer is not the canonical buffer of its own logical bits: it      *)
(* carries set bits or whole bytes beyond length_in_bits.                  *)
Stale(b) == b.data # Pack(BitsOf(b.data, b.length_in_bits))

(* The accumulator of the double-shifting loop, written per index in       *)
(* ShiftAcc, obeys the loop's own step y = (y << 8) | x on every slice     *)
(* that is passed in, from the extreme values of the first partial byte.   *)
ShiftAccFollowsLoop ==
    \A last_bits \in {0, 1, 85, 127} : \A i \in 1..Len(last.slice) :
        ShiftAcc(last.slice, i, last_bits) =
            BitOr(ShlU16(ShiftAcc(last.slice, i - 1, last_bits), 8),
                  last.slice[i])

(* C1: in every reachable state the bits of the last partial byte that lie *)
(* beyond length_in_bits are zero.                                         *)
C1_TrailingBitsZero ==
    LET n == builder.length_in_bits IN
    (n % 8 # 0 /\ Len(builder.data) > n \div 8) =>
        builder.data[(n \div 8) + 1] % (2 ^ (8 - (n % 8))) = 0

(* C2 as stated: a call whose bits would bring the total above 1023        *)
(* returns CellOverflow and leaves the builder as it was.                  *)
C2_OverflowReturnsCellOverflow ==
    (IsAppendOrPrepend /\ prev.length_in_bits + last.bits > 1023) =>
        (last.res = "CellOverflow" /\ builder = prev)

(* C2 amended: such a call leaves the builder as it was and returns        *)
(* CellOverflow, or FatalError when the slice holds fewer bits than asked. *)
C2_OverflowLeavesBuilderUnchanged ==
    (IsAppendOrPrepend /\ prev.length_in_bits + last.bits > 1023) =>
        /\ builder = prev
        /\ last.res = IF 8 * Len(last.slice) < last.bits
                      THEN "FatalError" ELSE "CellOverflow"

C2_Witness ==
    /\ last.op = "prepend_raw"
    /\ last.res = "CellOverflow"
    /\ prev.length_in_bits = 1019
    /\ last.bits = 7
    /\ builder = prev

(* C4: an append_raw call that passes its FatalError and CellOverflow      *)
(* checks returns Ok with length_in_bits <= 1023 and at most 128 bytes,    *)
(* and with 0 bits it changes nothing.                                     *)
C4_AppendPostconditionsHold ==
    (last.op = "append_raw" /\ last.res \notin {"FatalError", "CellOverflow"}) =>
        /\ last.res = "Ok"
        /\ builder.length_in_bits <= 1023
        /\ Len(builder.data) <= 128
        /\ last.bits = 0 => builder = prev

(* C10: on a builder whose buffer carries stale bits or bytes, append_raw  *)
(* or prepend_raw of k > 0 bits within capacity returns Ok and leaves the  *)
(* canonical buffer of the logical bits joined with the payload bits.      *)
C10_StaleBitsNeverLeak ==
    (/\ IsAppendOrPrepend
     /\ Stale(prev)
     /\ last.bits > 0
     /\ last.bits <= 8 * Len(last.slice)
     /\ prev.length_in_bits + last.bits <= 1023) =>
        LET old == BitsOf(prev.data, prev.length_in_bits)
            payload == BitsOf(last.slice, last.bits)
            joined == IF last.op = "append_raw" THEN old \o payload
                      ELSE payload \o old
            direct == with_raw(Pack(joined), Len(joined))
        IN  /\ last.res = "Ok"
            /\ direct.res = "Ok"
            /\ builder.length_in_bits = Len(joined)
            /\ builder.data = direct.b.data
            /\ builder.data = Pack(joined)

C10_Witness ==
    /\ last.op = "append_raw"
    /\ last.res = "Ok"
    /\ last.bits = 13
    /\ Stale(prev)
    /\ prev.length_in_bits % 8 # 0
    /\ prev.data[(prev.length_in_bits \div 8) + 1] % 2 = 1
    /\ builder.length_in_bits = prev.length_in_bits + 13

(***************************************************************************)
(* SpecRefs: the reference list under checked_append_reference and         *)
(* checked_prepend_reference; the capacity bounds it.                      *)
(***************************************************************************)
RefsAppend ==
    /\ \E child \in Children : CheckedAppendReference(child)
    /\ UNCHANGED steps

RefsPrepend ==
    /\ \E child \in Children : CheckedPrependReference(child)
    /\ UNCHANGED steps

NextRefs == RefsAppend \/ RefsPrepend

SpecRefs == InitNew /\ [][NextRefs]_vars

(* C7: the list never holds more than 4 references; a call made with 4     *)
(* present fails with CellOverflow and changes nothing; a successful       *)
(* append puts the child last, a successful prepend puts it at index 0     *)
(* and moves the others up by one, in their order.                         *)
C7_ReferenceCapacityAndOrder ==
    /\ Len(builder.references) <= 4
    /\ last.op \in {"checked_append_reference", "checked_prepend_reference"} =>
         LET child == last.slice[1]
             old == prev.references
             now == builder.references
         IN  IF Len(old) = 4
             THEN last.res = "CellOverflow" /\ builder = prev
             ELSE /\ last.res = "Ok"
                  /\ Len(now) = Len(old) + 1
                  /\ builder = [prev EXCEPT !.references = now]
                  /\ IF last.op = "checked_append_reference"
                     THEN /\ now[Len(now)] = child
                          /\ \A i \in 1..Len(old) : now[i] = old[i]
                     ELSE /\ now[1] = child
                          /\ \A i \in 1..Len(old) : now[i + 1] = old[i]

C7_Witness ==
    /\ last.op = "checked_prepend_reference"
    /\ last.res = "CellOverflow"
    /\ Len(builder.references) = 4
    /\ builder.references[1] = ChildC
    /\ builder.references[4] = ChildA

(***************************************************************************)
(* SpecTag: with_raw(bytes, n), the end-of-bits tag appended to its        *)
(* buffer, and with_bitstring of the tagged buffer, for every n a buffer   *)
(* allows and one more.  The round trip is a function of its inputs, so   *)
(* each behaviour applies it once, to a fresh builder.                     *)
(***************************************************************************)
TagRoundTrip ==
    /\ steps = 0
    /\ steps' = 1
    /\ \E data \in {B1, B2, B128, B129, Pattern(255, 128)} :
           \E n \in 0..(8 * Len(data) + 1) : RoundTrip(data, n)

NextTag == TagRoundTrip

SpecTag == InitNew /\ [][NextTag]_vars

(* C8: for 0 <= n <= 1023 and bytes holding at least n bits, the builder   *)
(* that with_bitstring makes of the tagged buffer of with_raw(bytes, n)    *)
(* has length_in_bits n and the buffer of with_raw(bytes, n).              *)
C8_TagRoundTrip ==
    last.op = "round_trip" =>
        /\ last.res = "Ok"
        /\ prev.length_in_bits = last.bits
        /\ builder.length_in_bits = last.bits
        /\ builder.data = prev.data
        /\ builder.data = Pack(logical)
        /\ Len(logical) = last.bits

C8_Witness ==
    /\ last.op = "round_trip"
    /\ last.res = "Ok"
    /\ last.bits = 1023
    /\ builder.length_in_bits = 1023
    /\ Len(builder.data) = 128

(***************************************************************************)
(* SpecCell: references, cell type and level mask, finalize and from_cell, *)
(* with a few data operations that leave stale bits behind.                *)
(***************************************************************************)
CellAppendReference ==
    /\ Tick(MaxCellSteps)
    /\ \E child \in Children : CheckedAppendReference(child)

CellPrependReference ==
    /\ Tick(MaxCellSteps)
    /\ CheckedPrependReference(ChildB)

CellSetType ==
    /\ Tick(MaxCellSteps)
    /\ \E cell_type \in CellTypes : SetType(cell_type)

CellSetLevelMask ==
    /\ Tick(MaxCellSteps)
    /\ \E mask \in {0, 2} : SetLevelMask(mask)

CellFinalize ==
    /\ Tick(MaxCellSteps)
    /\ \E max_depth \in {1, MAX_SAFE_DEPTH} : Finalize(max_depth)

CellFromCell == Tick(MaxCellSteps) /\ FromCell

CellAppendRaw == Tick(MaxCellSteps) /\ AppendRaw(<<165>>, 8)

CellTrunc == Tick(MaxCellSteps) /\ Trunc(3)

CellReplaceData == Tick(MaxCellSteps) /\ ReplaceData(B2, 11)

NextCell ==
    \/ CellAppendReference
    \/ CellPrependReference
    \/ CellSetType
    \/ CellSetLevelMask
    \/ CellFinalize
    \/ CellFromCell
    \/ CellAppendRaw
    \/ CellTrunc
    \/ CellReplaceData

SpecCell == InitNew /\ [][NextCell]_vars

HasMaskBit(refs, k) ==
    \E i \in 1..Len(refs) : (refs[i].level_mask \div (2 ^ k)) % 2 = 1

OrOfReferenceMasks(refs) ==
      (IF HasMaskBit(refs, 0) THEN 1 ELSE 0)
    + (IF HasMaskBit(refs, 1) THEN 2 ELSE 0)
    + (IF HasMaskBit(refs, 2) THEN 4 ELSE 0)

(* C5: finalize passes to the node constructor the OR of the references'   *)
(* level masks when the cell type is Ordinary, and the builder's own level *)
(* mask otherwise.                                                         *)
C5_FinalizeLevelMask ==
    last.op = "finalize" =>
        ctor.args.level_mask =
            IF builder.cell_type = "Ordinary"
            THEN OrOfReferenceMasks(builder.references)
            ELSE builder.level_mask

(* C6: from_cell of the cell a finalize produced is the builder that the   *)
(* finalize consumed: same data, length, references, type and level mask.  *)
C6_ReopenIsIdentity ==
    last.op = "from_cell" => (last.res = "Ok" /\ builder = finalized)

(***************************************************************************)
(* SpecCmp: compare_data of the builder with another builder, which is     *)
(* made by with_raw or cloned from the builder on the way.                 *)
(***************************************************************************)
CmpInputs == {<<B0, 0>>, <<B1, 3>>, <<B1, 8>>, <<B2, 11>>}

CmpChunks ==
    {<<<<165>>, 3>>, <<<<165>>, 8>>, <<<<128>>, 1>>, <<<<0>>, 1>>,
     <<<<165, 192>>, 11>>}

InitCmp == \E in \in CmpInputs : InitPair(new, with_raw(in[1], in[2]).b)

CmpAppendRaw ==
    /\ Tick(MaxCmpSteps)
    /\ \E c \in CmpChunks : AppendRaw(c[1], c[2])

CmpTrunc ==
    /\ Tick(MaxCmpSteps)
    /\ \E n \in {0, 2} : Trunc(n)

CmpReplaceData == Tick(MaxCmpSteps) /\ ReplaceData(B1, 3)

CmpAppendReference == Tick(MaxCmpSteps) /\ CheckedAppendReference(ChildB)

CmpClone == Tick(MaxCmpSteps) /\ Clone

CmpCompareData == Tick(MaxCmpSteps) /\ CompareData

NextCmp ==
    \/ CmpAppendRaw
    \/ CmpTrunc
    \/ CmpReplaceData
    \/ CmpAppendReference
    \/ CmpClone
    \/ CmpCompareData

SpecCmp == InitCmp /\ [][NextCmp]_vars

====
